---- MODULE Spec2Model ----
(***************************************************************************)
(* A model of generate() of do_populate.py: one call, from the check of    *)
(* its arguments to the returned Population (or the raised error).         *)
(*                                                                         *)
(* Python values are records [t |-> <type name>, v |-> <value>].  Numbers  *)
(* are integers: redshifts are held in tenths, H_0 in km/s/Mpc, W_m and    *)
(* W_v in tenths, spectral indices in tenths, volumes in units of 4*pi/3 cubic length units, so that   *)
(* v * 3/(4*pi) is the cube of a length, sines and cosines in            *)
(* thousandths.  The ambient generator behind random.random() is a hidden  *)
(* state rng in 0..RandMod-1, seeded arbitrarily; a draw returns           *)
(* rng/RandMod and advances the state.                                     *)
(***************************************************************************)
EXTENDS Integers, Sequences, FiniteSets, TLC

VARIABLES args, rng, pc, name, pop, ds, zs, src, error, returned, calls, interp_args

vars == <<args, rng, pc, name, pop, ds, zs, src, error, returned, calls, interp_args>>

\* ------------------------------------------------------------- bounds
MaxGen == 2
MaxChanged == 2
RandMod == 8
TableSteps == 2

\* ------------------------------------------------------ python values
PyInt(k) == [t |-> "int", v |-> k]
PyFloat(k) == [t |-> "float", v |-> k]
PyBool(k) == [t |-> "bool", v |-> k]
StrNum == [t |-> "str", v |-> 0]
PyStr(s) == [t |-> "str", v |-> s]
NoneName == [t |-> "NoneType", v |-> ""]
IntName(s) == [t |-> "int", v |-> s]

\* isinstance(par, (float, int)): bool is a subclass of int
IsNumber(x) == x.t \in {"float", "int", "bool"}

AllNumbers(pars) == \A i \in 1..Len(pars) : IsNumber(pars[i])

\* bool(name): None, '' and 0 are falsy
Truthy(x) ==
    CASE x.t = "NoneType" -> FALSE
      [] x.t = "str" -> x.v # ""
      [] x.t = "int" -> x.v # "0"
      [] OTHER -> TRUE

\* --------------------------------------------------------- arguments
DefaultArgs ==
    [cosmology |-> PyBool(1),
     cosmo_pars |-> <<PyFloat(70), PyFloat(3), PyFloat(7)>>,
     electron_model |-> "ne2001",
     emission_pars |-> <<PyFloat(1), PyFloat(9)>>,
     lum_dist_pars |-> <<PyFloat(4), PyFloat(5), PyInt(1)>>,
     name |-> NoneName,
     pulse |-> <<PyFloat(1), PyInt(5)>>,
     si_pars |-> <<PyInt(10), PyInt(10)>>,
     z_max |-> PyFloat(25)]

NGenValues ==
    {PyInt(k) : k \in 0..MaxGen} \cup {PyInt(-1), PyFloat(2), PyBool(1), StrNum}

ArgValues ==
    [cosmology |-> {PyBool(1), PyBool(0), PyInt(1)},
     cosmo_pars |-> {<<PyFloat(70), PyFloat(3), PyFloat(7)>>,
                     <<PyInt(140), PyFloat(3), PyFloat(7)>>,
                     <<PyFloat(70), PyFloat(3)>>,
                     <<PyFloat(70), StrNum, PyFloat(7)>>,
                     <<StrNum, PyFloat(3)>>},
     electron_model |-> {"ne2001", "bogus"},
     emission_pars |-> {<<PyFloat(1), PyFloat(9)>>, <<PyFloat(1)>>, <<StrNum, PyFloat(9)>>},
     lum_dist_pars |-> {<<PyFloat(4), PyFloat(5), PyInt(1)>>, <<PyFloat(4), PyFloat(5)>>,
                        <<PyFloat(4), StrNum, PyInt(1)>>},
     name |-> {NoneName, PyStr(""), PyStr("frb"), IntName("0"), IntName("7")},
     pulse |-> {<<PyFloat(1), PyInt(5)>>, <<PyFloat(1), PyInt(5), PyInt(6)>>,
                <<StrNum, PyInt(5)>>},
     si_pars |-> {<<PyInt(10), PyInt(10)>>, <<PyInt(20), PyInt(5)>>, <<PyInt(10)>>,
                  <<PyInt(10), StrNum>>},
     z_max |-> {PyFloat(25), PyInt(12), StrNum}]

ArgNames == DOMAIN ArgValues

Changed(a) == {f \in ArgNames : a[f] # DefaultArgs[f]}

\* the calls of generate the model draws: any n_gen, and at most MaxChanged
\* of the keyword arguments away from their defaults
Calls ==
    {a \in [n_gen : NGenValues,
            cosmology : ArgValues.cosmology,
            cosmo_pars : ArgValues.cosmo_pars,
            electron_model : ArgValues.electron_model,
            emission_pars : ArgValues.emission_pars,
            lum_dist_pars : ArgValues.lum_dist_pars,
            name : ArgValues.name,
            pulse : ArgValues.pulse,
            si_pars : ArgValues.si_pars,
            z_max : ArgValues.z_max] : Cardinality(Changed(a)) <= MaxChanged}

\* ------------------------------------------------------- input checks
NoError == "none"

MsgNGenType == "Please ensure the number of generated sources is an integer"
MsgNGenPositive == "Please ensure the number of generated sources is > 0"
MsgCosmology == "Please ensure cosmology is a boolean"
MsgCosmoParsType == "Please ensure all cosmology parameters are floats or integeters"
MsgCosmoParsLen == "Please ensure there are three cosmology parameters"
MsgElectronModel(m) == "Unsupported electron model: " \o m
MsgEmissionType == "Please ensure all emission parameters are floats or integeters"
MsgEmissionLen == "Please ensure there are two emission parameters"
MsgLumType == "Please ensure all luminosity distribution parameters are floats or integeters"
MsgLumLen == "Please ensure there are three luminosity distribution parameters"
MsgPulseType == "Please ensure all pulse parameters are floats or integeters"
MsgPulseLen == "Please ensure there are two pulse parameters"
MsgName == "Please provide a string as input for the name of the population"
MsgSiType == "Please ensure all spectral index parameters are floats or integers"
MsgSiLen == "Please ensure there are two spectral index parameters"
MsgZMax == "Please ensure the maximum redshift is given as a float or integer"

\* if not name: name = 'Initial'
DefaultedName(n) == IF ~Truthy(n) THEN PyStr("Initial") ELSE n

\* the checks with the electron model looked at before the cosmology parameters
InputErrorModelFirst(a) ==
    IF a.n_gen.t # "int" THEN MsgNGenType
    ELSE IF a.n_gen.v < 1 THEN MsgNGenPositive
    ELSE IF a.cosmology.t # "bool" THEN MsgCosmology
    ELSE IF a.electron_model \notin {"ne2001"} THEN MsgElectronModel(a.electron_model)
    ELSE IF ~AllNumbers(a.cosmo_pars) THEN MsgCosmoParsType
    ELSE IF Len(a.cosmo_pars) # 3 THEN MsgCosmoParsLen
    ELSE IF ~AllNumbers(a.emission_pars) THEN MsgEmissionType
    ELSE IF Len(a.emission_pars) # 2 THEN MsgEmissionLen
    ELSE IF ~AllNumbers(a.lum_dist_pars) THEN MsgLumType
    ELSE IF Len(a.lum_dist_pars) # 3 THEN MsgLumLen
    ELSE IF ~AllNumbers(a.pulse) THEN MsgPulseType
    ELSE IF Len(a.pulse) # 2 THEN MsgPulseLen
    ELSE IF DefaultedName(a.name).t # "str" THEN MsgName
    ELSE IF ~AllNumbers(a.si_pars) THEN MsgSiType
    ELSE IF Len(a.si_pars) # 2 THEN MsgSiLen
    ELSE IF ~IsNumber(a.z_max) THEN MsgZMax
    ELSE NoError

\* the checks of generate, in the order of the code; the message of the
\* ValueError raised, or NoError
InputError(a) ==
    IF a.n_gen.t # "int" THEN MsgNGenType
    ELSE IF a.n_gen.v < 1 THEN MsgNGenPositive
    ELSE IF a.cosmology.t # "bool" THEN MsgCosmology
    ELSE IF ~AllNumbers(a.cosmo_pars) THEN MsgCosmoParsType
    ELSE IF Len(a.cosmo_pars) # 3 THEN MsgCosmoParsLen
    ELSE IF a.electron_model \notin {"ne2001"} THEN MsgElectronModel(a.electron_model)
    ELSE IF ~AllNumbers(a.emission_pars) THEN MsgEmissionType
    ELSE IF Len(a.emission_pars) # 2 THEN MsgEmissionLen
    ELSE IF ~AllNumbers(a.lum_dist_pars) THEN MsgLumType
    ELSE IF Len(a.lum_dist_pars) # 3 THEN MsgLumLen
    ELSE IF ~AllNumbers(a.pulse) THEN MsgPulseType
    ELSE IF Len(a.pulse) # 2 THEN MsgPulseLen
    ELSE IF DefaultedName(a.name).t # "str" THEN MsgName
    ELSE IF ~AllNumbers(a.si_pars) THEN MsgSiType
    ELSE IF Len(a.si_pars) # 2 THEN MsgSiLen
    ELSE IF ~IsNumber(a.z_max) THEN MsgZMax
    ELSE NoError

\* ---------------------------------------------------------------- math
\* sin of x degrees, in thousandths (Bhaskara's rational approximation)
SinDeg(x) ==
    LET r == x % 360
        h == IF r <= 180 THEN r ELSE r - 180
        b == (4000 * h * (180 - h)) \div (40500 - h * (180 - h))
    IN IF r <= 180 THEN b ELSE 0 - b

CosDeg(x) == SinDeg(x + 90)

\* math.degrees(math.asin(u / RandMod)), in whole degrees
AsinDeg(u) ==
    CHOOSE g \in 0..90 :
        /\ SinDeg(g) * RandMod <= 1000 * u
        /\ g < 90 => SinDeg(g + 1) * RandMod > 1000 * u

\* n ** (1/3), rounded down
ICbrt(n) == CHOOSE k \in 0..n : k * k * k <= n /\ n < (k + 1) * (k + 1) * (k + 1)

\* the generator behind random.random(): the next hidden state
NextRng(r) == (13 * r + 1) % RandMod

\* ----------------------------------------------------------- cosmology
\* comoving distance out to redshift z (tenths): c*z/H_0 in flat,
\* non-expanding space, c*z/(H_0*E(z)) with E growing with z otherwise
ComovingDist(cosmology, H_0, W_m, W_v, z) ==
    IF cosmology
    THEN (280 * z) \div (H_0 * ((W_m * (10 + z)) \div 10 + W_v))
    ELSE (28 * z) \div H_0

\* go.z_to_v(z): the comoving volume out to z; called with z alone, it
\* works under its own default cosmology
z_to_v(z) ==
    LET d == ComovingDist(TRUE, 70, 3, 7, z) IN d * d * d

\* go.dist_lookup: TableSteps + 1 rows over [0, z_max]
dist_lookup(cosmology, H_0, W_m, W_v, z_max) ==
    LET tz == [i \in 1..(TableSteps + 1) |-> (z_max * (i - 1)) \div TableSteps]
    IN <<[i \in 1..(TableSteps + 1) |-> ComovingDist(cosmology, H_0, W_m, W_v, tz[i])],
         tz>>

\* whether the table brackets the distance
Bracketed(dist, tds) == Len(tds) > 0 /\ tds[1] <= dist /\ dist <= tds[Len(tds)]

\* go.interpolate_z on a bracketed distance: linear between the two rows
interpolate_z(dist, tds, tzs) ==
    IF Len(tds) = 1 THEN tzs[1]
    ELSE LET i == CHOOSE j \in 1..(Len(tds) - 1) :
                      /\ tds[j] <= dist /\ dist <= tds[j + 1]
                      /\ \A k \in 1..(j - 1) : ~(tds[k] <= dist /\ dist <= tds[k + 1])
         IN IF tds[i + 1] = tds[i] THEN tzs[i]
            ELSE tzs[i] + ((dist - tds[i]) * (tzs[i + 1] - tzs[i])) \div (tds[i + 1] - tds[i])

\* go.lb_to_xyz: spherical to cartesian, in thousandths of the length unit
lb_to_xyz(gl, gb, dist) ==
    <<(dist * CosDeg(gb) * CosDeg(gl)) \div 1000,
      (dist * CosDeg(gb) * SinDeg(gl)) \div 1000,
      dist * SinDeg(gb)>>

\* go.ne2001_dist_to_dm: a deterministic function of the position, never negative
ne2001_dist_to_dm(dist, gl, gb) ==
    LET b == IF gb < 0 THEN 0 - gb ELSE gb IN (30 * dist * (100 - b)) \div 100 + gl \div 90

\* go.ioka_dm_igm: a function of the redshift alone, 0 at z = 0
ioka_dm_igm(z) == 120 * z

\* go.redshift_pulse: a base width drawn in [w_min, w_max], widened by (1 + z)
redshift_pulse(z, w_min, w_max, u) ==
    (w_min + ((w_max - w_min) * u) \div RandMod) * (10 + z)

\* dis.powerlaw: a value drawn in [lum_min, lum_max]
powerlaw(lum_min, lum_max, lum_pow, u) ==
    lum_min + ((lum_max - lum_min) * u) \div RandMod

\* ---------------------------------------------------------- the objects
NoPop == [made |-> FALSE]

\* Population(): no source yet
PopulationInit ==
    [made |-> TRUE, name |-> PyStr(""), n_gen |-> 0, electron_model |-> "",
     cosmology |-> TRUE, H_0 |-> 0, W_m |-> 0, W_v |-> 0, z_max |-> 0, v_max |-> 0,
     lum_min |-> 0, lum_max |-> 0, lum_pow |-> 0, w_min |-> 0, w_max |-> 0,
     f_min |-> 0, f_max |-> 0, si_mean |-> 0, si_sigma |-> 0,
     n_srcs |-> 0, sources |-> <<>>]

SourceFields ==
    {"gb", "gl", "dist", "z", "gx", "gy", "gz", "dm_mw", "dm_igm", "dm_host", "dm",
     "w_int", "lum_bol", "si"}

NoSrc == [made |-> FALSE]

\* Source(): no field assigned yet (assigned names those set since)
SourceInit ==
    [made |-> TRUE, assigned |-> {}, gb |-> 0, gl |-> 0, dist |-> 0, z |-> 0,
     gx |-> 0, gy |-> 0, gz |-> 0, dm_mw |-> 0, dm_igm |-> 0, dm_host |-> 0, dm |-> 0,
     w_int |-> 0, lum_bol |-> 0, si |-> 0]

DmHostValue == 100
SpectralIndexValue == -14

NoCalls == [Population |-> 0, z_to_v |-> 0, dist_lookup |-> 0, random |-> 0, Source |-> 0]

Called(f) == [calls EXCEPT ![f] = @ + 1]

\* ------------------------------------------------------------------ Init
Init ==
    /\ args \in Calls
    /\ rng \in 0..(RandMod - 1)
    /\ pc = "check"
    /\ name = args.name
    /\ pop = NoPop
    /\ ds = <<>>
    /\ zs = <<>>
    /\ src = NoSrc
    /\ error = NoError
    /\ returned = NoPop
    /\ calls = NoCalls
    /\ interp_args = {}

\* --------------------------------------------------------------- actions
\* an exception swallowed: what was generated so far is returned
RaiseReturnsPartial(e) ==
    /\ pc' = "done"
    /\ error' = e
    /\ returned' = pop
    /\ UNCHANGED <<args, rng, name, pop, ds, zs, src, calls, interp_args>>

\* an exception leaves generate: nothing is returned
Raise(e) ==
    /\ pc' = "aborted"
    /\ error' = e
    /\ UNCHANGED <<args, rng, name, pop, ds, zs, src, returned, calls, interp_args>>

\* whether the checks ran as far as the defaulting of the name
ReachedName(e) == e \in {MsgName, MsgSiType, MsgSiLen, MsgZMax, NoError}

\* the checks run only once the Population is set up
CheckInputLate ==
    /\ pc = "check"
    /\ LET e == InputError(args) IN
         /\ name' = IF ReachedName(e) THEN DefaultedName(args.name) ELSE args.name
         /\ error' = e
         /\ pc' = IF e = NoError THEN "z_to_v" ELSE "invalid"
         /\ pop' = [PopulationInit EXCEPT !.name = name']
         /\ calls' = Called("Population")
    /\ UNCHANGED <<args, rng, ds, zs, src, returned, interp_args>>

\* lines 56-124: the input checks
CheckInput ==
    /\ pc = "check"
    /\ LET e == InputError(args) IN
         /\ name' = IF ReachedName(e) THEN DefaultedName(args.name) ELSE args.name
         /\ error' = e
         /\ pc' = IF e = NoError THEN "new_pop" ELSE "invalid"
    /\ UNCHANGED <<args, rng, pop, ds, zs, src, returned, calls, interp_args>>

\* lines 127-135
NewPopulation ==
    /\ pc = "new_pop"
    /\ pop' = [PopulationInit EXCEPT !.name = name,
                                     !.n_gen = args.n_gen.v,
                                     !.electron_model = args.electron_model,
                                     !.cosmology = (args.cosmology.v = 1),
                                     !.H_0 = args.cosmo_pars[1].v,
                                     !.W_m = args.cosmo_pars[2].v,
                                     !.W_v = args.cosmo_pars[3].v,
                                     !.z_max = args.z_max.v]
    /\ calls' = Called("Population")
    /\ pc' = "z_to_v"
    /\ UNCHANGED <<args, rng, name, ds, zs, src, error, returned, interp_args>>

\* line 136
MaxVolume ==
    /\ pc = "z_to_v"
    /\ \/ /\ pop' = [pop EXCEPT !.v_max = z_to_v(pop.z_max)]
          /\ calls' = Called("z_to_v")
          /\ pc' = "set_pars"
          /\ UNCHANGED <<args, rng, name, ds, zs, src, error, returned, interp_args>>
       \/ Raise("DomainError")

\* lines 137-145
SetParameters ==
    /\ pc = "set_pars"
    /\ pop' = [pop EXCEPT !.lum_min = args.lum_dist_pars[1].v,
                          !.lum_max = args.lum_dist_pars[2].v,
                          !.lum_pow = args.lum_dist_pars[3].v,
                          !.w_min = args.pulse[1].v,
                          !.w_max = args.pulse[2].v,
                          !.f_min = args.emission_pars[1].v,
                          !.f_max = args.emission_pars[2].v,
                          !.si_mean = args.si_pars[1].v,
                          !.si_sigma = args.si_pars[2].v]
    /\ pc' = "lookup"
    /\ UNCHANGED <<args, rng, name, ds, zs, src, error, returned, calls, interp_args>>

\* lines 148-153
BuildLookup ==
    /\ pc = "lookup"
    /\ \/ /\ LET t == dist_lookup(pop.cosmology, pop.H_0, pop.W_m, pop.W_v, pop.z_max)
             IN ds' = t[1] /\ zs' = t[2]
          /\ calls' = Called("dist_lookup")
          /\ pc' = "loop"
          /\ UNCHANGED <<args, rng, name, pop, src, error, returned, interp_args>>
       \/ Raise("DomainError")

\* the loop's condition, off by one
LoopContinuesInclusive(p) == p.n_srcs <= p.n_gen

\* line 155: the loop's condition
LoopContinues(p) == p.n_srcs < p.n_gen

LoopTest ==
    /\ pc = "loop"
    /\ pc' = IF LoopContinues(pop) THEN "new_src" ELSE "return"
    /\ UNCHANGED <<args, rng, name, pop, ds, zs, src, error, returned, calls, interp_args>>

\* line 158
NewSource ==
    /\ pc = "new_src"
    /\ src' = SourceInit
    /\ calls' = Called("Source")
    /\ pc' = "gb"
    /\ UNCHANGED <<args, rng, name, pop, ds, zs, error, returned, interp_args>>

Assign(s, f, x) == [s EXCEPT ![f] = x, !.assigned = @ \cup {f}]

\* lines 161-163: two draws
DrawLatitude ==
    /\ pc = "gb"
    /\ LET u1 == rng
           u2 == NextRng(rng)
           g == AsinDeg(u1)
       IN /\ src' = Assign(src, "gb", IF 2 * u2 < RandMod THEN 0 - g ELSE g)
          /\ rng' = NextRng(u2)
    /\ calls' = [calls EXCEPT !.random = @ + 2]
    /\ pc' = "gl"
    /\ UNCHANGED <<args, name, pop, ds, zs, error, returned, interp_args>>

\* line 164
DrawLongitude ==
    /\ pc = "gl"
    /\ src' = Assign(src, "gl", (rng * 360) \div RandMod)
    /\ rng' = NextRng(rng)
    /\ calls' = Called("random")
    /\ pc' = "dist"
    /\ UNCHANGED <<args, name, pop, ds, zs, error, returned, interp_args>>

\* line 167
DrawDistance ==
    /\ pc = "dist"
    /\ src' = Assign(src, "dist", ICbrt((pop.v_max * rng) \div RandMod))
    /\ rng' = NextRng(rng)
    /\ calls' = Called("random")
    /\ pc' = "interp"
    /\ UNCHANGED <<args, name, pop, ds, zs, error, returned, interp_args>>

\* the table built anew for each source
RedshiftRebuilds ==
    /\ pc = "interp"
    /\ LET t == dist_lookup(pop.cosmology, pop.H_0, pop.W_m, pop.W_v, pop.z_max)
       IN /\ ds' = t[1]
          /\ zs' = t[2]
          /\ interp_args' = interp_args \cup {<<t[1], t[2]>>}
          /\ src' = Assign(src, "z", IF Bracketed(src.dist, t[1])
                                     THEN interpolate_z(src.dist, t[1], t[2]) ELSE 0)
    /\ calls' = Called("dist_lookup")
    /\ pc' = "xyz"
    /\ UNCHANGED <<args, rng, name, pop, error, returned>>

\* line 169: the call fails when the table does not bracket the distance
Redshift ==
    /\ pc = "interp"
    /\ \/ /\ Bracketed(src.dist, ds)
          /\ interp_args' = interp_args \cup {<<ds, zs>>}
          /\ src' = Assign(src, "z", interpolate_z(src.dist, ds, zs))
          /\ pc' = "xyz"
          /\ UNCHANGED <<args, rng, name, pop, ds, zs, error, returned, calls>>
       \/ /\ ~Bracketed(src.dist, ds)
          /\ Raise("OutOfRangeError")

\* line 171
Cartesian ==
    /\ pc = "xyz"
    /\ \/ /\ LET c == lb_to_xyz(src.gl, src.gb, src.dist)
             IN src' = Assign(Assign(Assign(src, "gx", c[1]), "gy", c[2]), "gz", c[3])
          /\ pc' = "dm_mw"
          /\ UNCHANGED <<args, rng, name, pop, ds, zs, error, returned, calls, interp_args>>
       \/ Raise("DomainError")

\* line 174
DmMilkyWay ==
    /\ pc = "dm_mw"
    /\ \/ /\ src' = Assign(src, "dm_mw", ne2001_dist_to_dm(src.dist, src.gl, src.gb))
          /\ pc' = "dm_igm"
          /\ UNCHANGED <<args, rng, name, pop, ds, zs, error, returned, calls, interp_args>>
       \/ Raise("DomainError")

\* line 176
DmIntergalactic ==
    /\ pc = "dm_igm"
    /\ \/ /\ src' = Assign(src, "dm_igm", ioka_dm_igm(src.z))
          /\ pc' = "dm_host"
          /\ UNCHANGED <<args, rng, name, pop, ds, zs, error, returned, calls, interp_args>>
       \/ Raise("DomainError")

\* line 178
DmHost ==
    /\ pc = "dm_host"
    /\ src' = Assign(src, "dm_host", DmHostValue)
    /\ pc' = "dm"
    /\ UNCHANGED <<args, rng, name, pop, ds, zs, error, returned, calls, interp_args>>

\* the sum without the host's share
TotalDmNoHost(s) == s.dm_mw + s.dm_igm

\* line 180: the sum
TotalDm(s) == s.dm_mw + s.dm_igm + s.dm_host

DmTotal ==
    /\ pc = "dm"
    /\ src' = Assign(src, "dm", TotalDm(src))
    /\ pc' = "w_int"
    /\ UNCHANGED <<args, rng, name, pop, ds, zs, error, returned, calls, interp_args>>

\* lines 183-185: one draw inside the call
PulseWidth ==
    /\ pc = "w_int"
    /\ \/ /\ src' = Assign(src, "w_int", redshift_pulse(src.z, pop.w_min, pop.w_max, rng))
          /\ rng' = NextRng(rng)
          /\ calls' = Called("random")
          /\ pc' = "lum"
          /\ UNCHANGED <<args, name, pop, ds, zs, error, returned, interp_args>>
       \/ Raise("DomainError")

\* line 188: one draw inside the call
Luminosity ==
    /\ pc = "lum"
    /\ \/ /\ src' = Assign(src, "lum_bol",
                           powerlaw(pop.lum_min, pop.lum_max, pop.lum_pow, rng))
          /\ rng' = NextRng(rng)
          /\ calls' = Called("random")
          /\ pc' = "si"
          /\ UNCHANGED <<args, name, pop, ds, zs, error, returned, interp_args>>
       \/ Raise("DomainError")

\* the spectral index taken from the configured mean (the draw of line 192)
SourceSiFromPars(p) == p.si_mean

\* line 191: the spectral index given to a source
SourceSi(p) == SpectralIndexValue

SpectralIndex ==
    /\ pc = "si"
    /\ src' = Assign(src, "si", SourceSi(pop))
    /\ pc' = "append"
    /\ UNCHANGED <<args, rng, name, pop, ds, zs, error, returned, calls, interp_args>>

\* the source appended twice
AppendedTwice(p, s) == [p EXCEPT !.sources = Append(Append(@, s), s), !.n_srcs = @ + 1]

\* lines 195-196
Appended(p, s) == [p EXCEPT !.sources = Append(@, s), !.n_srcs = @ + 1]

AppendSource ==
    /\ pc = "append"
    /\ pop' = Appended(pop, src)
    /\ pc' = "loop"
    /\ UNCHANGED <<args, rng, name, ds, zs, src, error, returned, calls, interp_args>>

\* line 198
Return ==
    /\ pc = "return"
    /\ returned' = pop
    /\ pc' = "done"
    /\ UNCHANGED <<args, rng, name, pop, ds, zs, src, error, calls, interp_args>>

Next ==
    \/ CheckInput
    \/ NewPopulation
    \/ MaxVolume
    \/ SetParameters
    \/ BuildLookup
    \/ LoopTest
    \/ NewSource
    \/ DrawLatitude
    \/ DrawLongitude
    \/ DrawDistance
    \/ Redshift
    \/ Cartesian
    \/ DmMilkyWay
    \/ DmIntergalactic
    \/ DmHost
    \/ DmTotal
    \/ PulseWidth
    \/ Luminosity
    \/ SpectralIndex
    \/ AppendSource
    \/ Return

Spec == Init /\ [][Next]_vars

\* ---------------------------------------------------------------- claims
ValidationMessages ==
    {MsgNGenType, MsgNGenPositive, MsgCosmology, MsgCosmoParsType, MsgCosmoParsLen,
     MsgEmissionType, MsgEmissionLen, MsgLumType, MsgLumLen, MsgPulseType, MsgPulseLen,
     MsgName, MsgSiType, MsgSiLen, MsgZMax}
    \cup {MsgElectronModel(m) : m \in ArgValues.electron_model}

Complete(s) == s.made /\ s.assigned = SourceFields

\* C1: a generate call that returns, returns a Population holding exactly
\* n_gen sources, with n_srcs = n_gen.
C1_ReturnedHasNGen ==
    pc = "done" =>
        /\ returned.made
        /\ returned.n_gen = args.n_gen.v
        /\ Len(returned.sources) = returned.n_gen
        /\ returned.n_srcs = returned.n_gen

C1_Witness ==
    /\ pc = "done"
    /\ error = NoError
    /\ args.n_gen.v = MaxGen
    /\ Len(returned.sources) = MaxGen

\* C2: n_srcs never exceeds n_gen, and from the first state with
\* n_srcs = n_gen on no Source is created and none is appended.
C2_LoopStopsAtNGen ==
    /\ [](pop.made => pop.n_srcs <= pop.n_gen)
    /\ [][(pop.made /\ pop.n_srcs = pop.n_gen) =>
              (calls'.Source = calls.Source /\ pop'.sources = pop.sources)]_vars

C2_Witness ==
    /\ pc = "return"
    /\ pop.n_srcs = pop.n_gen
    /\ pop.n_gen = MaxGen
    /\ calls.Source = MaxGen

\* C3: when an input check fails, generate has done no work: no Population,
\* no call of go.z_to_v or go.dist_lookup, no random draw, no Source; and a
\* configuration error is never the error of a run that did any of these.
C3_InvalidBeforeAnyWork ==
    (InputError(args) # NoError \/ pc = "invalid" \/ error \in ValidationMessages) =>
        /\ pc \in {"check", "invalid"}
        /\ pop = NoPop
        /\ src = NoSrc
        /\ calls = NoCalls
        /\ ds = <<>>
        /\ zs = <<>>
        /\ returned = NoPop

C3_Witness ==
    /\ pc = "invalid"
    /\ error = MsgZMax
    /\ calls = NoCalls

\* C4: a call with a violated check fails with a message of the first
\* violated field in the order n_gen, cosmology, cosmo_pars, electron_model,
\* emission_pars, lum_dist_pars, pulse, name, si_pars, z_max; a call with
\* none does not fail in the checks.
CheckOrder ==
    <<"n_gen", "cosmology", "cosmo_pars", "electron_model", "emission_pars",
      "lum_dist_pars", "pulse", "name", "si_pars", "z_max">>

Violates(a, f) ==
    CASE f = "n_gen" -> a.n_gen.t # "int" \/ a.n_gen.v < 1
      [] f = "cosmology" -> a.cosmology.t # "bool"
      [] f = "cosmo_pars" -> Len(a.cosmo_pars) # 3 \/ ~AllNumbers(a.cosmo_pars)
      [] f = "electron_model" -> a.electron_model # "ne2001"
      [] f = "emission_pars" -> Len(a.emission_pars) # 2 \/ ~AllNumbers(a.emission_pars)
      [] f = "lum_dist_pars" -> Len(a.lum_dist_pars) # 3 \/ ~AllNumbers(a.lum_dist_pars)
      [] f = "pulse" -> Len(a.pulse) # 2 \/ ~AllNumbers(a.pulse)
      [] f = "name" -> Truthy(a.name) /\ a.name.t # "str"
      [] f = "si_pars" -> Len(a.si_pars) # 2 \/ ~AllNumbers(a.si_pars)
      [] f = "z_max" -> ~IsNumber(a.z_max)

MessagesOf(a, f) ==
    CASE f = "n_gen" -> {MsgNGenType, MsgNGenPositive}
      [] f = "cosmology" -> {MsgCosmology}
      [] f = "cosmo_pars" -> {MsgCosmoParsType, MsgCosmoParsLen}
      [] f = "electron_model" -> {MsgElectronModel(a.electron_model)}
      [] f = "emission_pars" -> {MsgEmissionType, MsgEmissionLen}
      [] f = "lum_dist_pars" -> {MsgLumType, MsgLumLen}
      [] f = "pulse" -> {MsgPulseType, MsgPulseLen}
      [] f = "name" -> {MsgName}
      [] f = "si_pars" -> {MsgSiType, MsgSiLen}
      [] f = "z_max" -> {MsgZMax}

ViolatedChecks(a) == {i \in 1..Len(CheckOrder) : Violates(a, CheckOrder[i])}

C5_NonStringNameRejected ==
    /\ args.name.t \notin {"str", "NoneType"} => pc \in {"check", "invalid"}
    /\ pc = "done" => (returned.name.t = "str" /\ returned.name.v # "")

\* C6: a failed nested call ends the run with that error and nothing
\* returned (no step follows it); what is returned holds n_gen sources, and
\* every source of a Population has all of its fields assigned.
C6_NoPartialPopulation ==
    /\ [](/\ pc = "aborted" =>
                (returned = NoPop /\ error \in {"DomainError", "OutOfRangeError"})
          /\ returned # NoPop =>
                (/\ pc = "done"
                 /\ error = NoError
                 /\ Len(returned.sources) = returned.n_gen
                 /\ \A i \in 1..Len(returned.sources) : Complete(returned.sources[i]))
          /\ pop.made => \A i \in 1..Len(pop.sources) : Complete(pop.sources[i]))
    /\ [][pc # "aborted"]_vars

C6_Witness ==
    /\ pc = "aborted"
    /\ pop.made
    /\ pop.n_srcs >= 1
    /\ pop.n_srcs < pop.n_gen
    /\ returned = NoPop

\* C7: go.dist_lookup is called once, after the checks and before the first
\* Source; its table is never replaced, and it is the table every
\* interpolation is given.
C7_LookupBuiltOnce ==
    /\ [](/\ calls.dist_lookup <= 1
          /\ calls.dist_lookup = 0 => (calls.Source = 0 /\ interp_args = {})
          /\ calls.dist_lookup = 1 =>
                (/\ pc \notin {"check", "invalid"}
                 /\ Len(ds) = TableSteps + 1
                 /\ interp_args \subseteq {<<ds, zs>>})
          /\ pc = "done" => calls.dist_lookup = 1)
    /\ [][calls.dist_lookup = 1 => (ds' = ds /\ zs' = zs)]_vars

C7_Witness ==
    /\ pc = "done"
    /\ calls.dist_lookup = 1
    /\ calls.Source = MaxGen
    /\ interp_args = {<<ds, zs>>}

\* C8: every source whose dm is set has dm = dm_mw + dm_igm + dm_host with
\* dm_host = 100, and the four values stay as they are from then on.
DmAdds(s) == s.dm = s.dm_mw + s.dm_igm + s.dm_host /\ s.dm_host = 100

DmOf(s) == <<s.dm, s.dm_mw, s.dm_igm, s.dm_host>>

C8_DmIsSum ==
    /\ [](/\ (src.made /\ "dm" \in src.assigned) => DmAdds(src)
          /\ pop.made => \A i \in 1..Len(pop.sources) : DmAdds(pop.sources[i])
          /\ returned.made => \A i \in 1..Len(returned.sources) : DmAdds(returned.sources[i]))
    /\ [][/\ (src.made /\ "dm" \in src.assigned /\ src'.made /\ "dm" \in src'.assigned)
               => DmOf(src') = DmOf(src)
          /\ (pop.made /\ pop'.made) =>
                \A i \in 1..Len(pop.sources) : DmOf(pop'.sources[i]) = DmOf(pop.sources[i])]_vars

C8_Witness ==
    /\ pc = "done"
    /\ \E i \in 1..Len(returned.sources) :
          LET s == returned.sources[i]
          IN s.dm_mw > 0 /\ s.dm_igm > 0 /\ s.dm = s.dm_mw + s.dm_igm + 100

\* C9: every sampled distance lies within the distances of the lookup
\* table of its run, so that no interpolation fails out of range.
C9_DistanceWithinTable ==
    /\ (src.made /\ "dist" \in src.assigned) => Bracketed(src.dist, ds)
    /\ error # "OutOfRangeError"

\* C10: every source's spectral index is -1.4 whatever si_pars are, which
\* are stored as the Population's si_mean and si_sigma.
C10_SpectralIndexFixed ==
    /\ (src.made /\ "si" \in src.assigned) => src.si = SpectralIndexValue
    /\ pop.made => \A i \in 1..Len(pop.sources) : pop.sources[i].si = SpectralIndexValue
    /\ pc = "done" =>
          /\ \A i \in 1..Len(returned.sources) : returned.sources[i].si = SpectralIndexValue
          /\ returned.si_mean = args.si_pars[1].v
          /\ returned.si_sigma = args.si_pars[2].v

C10_Witness ==
    /\ pc = "done"
    /\ args.si_pars # DefaultArgs.si_pars
    /\ returned.si_mean # SpectralIndexValue
    /\ Len(returned.sources) = MaxGen
    /\ returned.sources[MaxGen].si = SpectralIndexValue

====
